---- MODULE Spec2Model ----
(***************************************************************************)
(* Region split/combine scheduling and multi-caller fan-out of             *)
(* bcbio/variation/genotype.py, with the resumable caller adapter of       *)
(* bcbio/variation/samtools.py.                                            *)
(*                                                                         *)
(* A sample record is a TLA+ record with one field per dictionary key the  *)
(* code reads or writes.  A configuration value, variantcaller or          *)
(* jointcaller or their orig_ stash, is tagged with its Python type:       *)
(* "absent" for no key or None, "false", "str" where v holds the one       *)
(* identifier, or "list" where v holds the identifiers.  An identifier is  *)
(* the sequence of the pieces of its name, so that str.startswith is the   *)
(* prefix relation on sequences.  A BAM value is tagged "none", "str",     *)
(* "list" or "tuple".                                                      *)
(***************************************************************************)
EXTENDS Integers, Sequences, FiniteSets, TLC

VARIABLES
    sample,      \* the pipeline's input sample, as configured
    recs,        \* the current list of sample records
    results,     \* the per-region result records handed to the collapser
    phase,       \* where the run is
    ops,         \* the operations applied so far, in order
    split,       \* the result of the region splitter's _do_work
    fs,          \* the files that exist on disk
    runs,        \* per work unit: variantcall_sample invocations
    callerCalls, \* per work unit: caller_fn invocations
    toolCalls,   \* per work unit: call_fn (external tool) invocations
    vrn          \* per work unit: data["vrn_file"] after the last invocation

vars == <<sample, recs, results, phase, ops, split, fs, runs, callerCalls, toolCalls, vrn>>

----------------------------------------------------------------------------
\* Bounds of the model.

\* longest variantcaller list of a sample
MaxCallers == 2
\* longest jointcaller list of a sample
MaxJoint == 2
\* handle_multiple_callers applications outside parallel_variantcall_region
MaxOps == 2
\* per-region result records handed to the collapser
MaxResults == 2
\* regions of a sample
MaxRegions == 2
\* invocations of variantcall_sample per work unit
MaxRuns == 2

----------------------------------------------------------------------------
\* Identifiers and values.

Gatk == <<"gatk">>
GatkHaplotype == <<"gatk", "-haplotype">>
Freebayes == <<"freebayes">>
GatkHaplotypeJoint == <<"gatk", "-haplotype", "-joint">>
FreebayesJoint == <<"freebayes", "-joint">>
GatkJoint == <<"gatk", "-joint">>
Precalled == <<"precalled">>

VariantCallerIds == {Gatk, GatkHaplotype, Freebayes}
JointCallerIds == {GatkHaplotypeJoint, FreebayesJoint, GatkJoint}

Absent == "absent"
NoneVal == "None"
FalseVal == "False"

AbsentCfg == [kind |-> "absent", v |-> <<>>]
FalseCfg == [kind |-> "false", v |-> <<>>]
StrCfg(id) == [kind |-> "str", v |-> <<id>>]
ListCfg(ids) == [kind |-> "list", v |-> ids]

NoBam == [kind |-> "none", v |-> <<>>]
StrBam(p) == [kind |-> "str", v |-> <<p>>]
ListBam(ps) == [kind |-> "list", v |-> ps]
TupleBam(ps) == [kind |-> "tuple", v |-> ps]

\* a list-valued key of a record: has is FALSE when the key is not there
NoList == [has |-> FALSE, v |-> <<>>]
HasList(xs) == [has |-> TRUE, v |-> xs]

Range(s) == {s[i] : i \in DOMAIN s}

\* the sequences over S without repetition, of length lo..hi
InjSeqs(S, lo, hi) ==
    UNION {{s \in [1..n -> S] : \A i, j \in 1..n : i # j => s[i] # s[j]} : n \in lo..hi}

\* Python truthiness of a configuration value
Truthy(c) == c.kind = "str" \/ (c.kind = "list" /\ c.v # <<>>)

\* Python truthiness of a BAM value
BamTruthy(b) == b.kind # "none"

\* x.startswith(prefix) on identifiers
StartsWith(x, prefix) ==
    /\ Len(prefix) <= Len(x)
    /\ \A i \in 1..Len(prefix) : x[i] = prefix[i]

\* data["config"]["algorithm"].get(key)
GetCfg(data, key) ==
    CASE key = "variantcaller" -> data.vc
      [] key = "jointcaller" -> data.jc
      [] key = "orig_variantcaller" -> data.orig_vc
      [] key = "orig_jointcaller" -> data.orig_jc

\* data["config"]["algorithm"][key] = val
SetCfg(data, key, val) ==
    CASE key = "variantcaller" -> [data EXCEPT !.vc = val]
      [] key = "jointcaller" -> [data EXCEPT !.jc = val]
      [] key = "orig_variantcaller" -> [data EXCEPT !.orig_vc = val]
      [] key = "orig_jointcaller" -> [data EXCEPT !.orig_jc = val]

OrigKey(key) == IF key = "variantcaller" THEN "orig_variantcaller" ELSE "orig_jointcaller"

\* a sample record as the pipeline first sees it
NewRecord(batch, bam, vc, jc, vrn_file) ==
    [description |-> "S1", group |-> NoList, work_dir |-> "work",
     batch |-> batch, align_bam |-> bam, combine_out |-> NoBam,
     vc |-> vc, jc |-> jc, orig_vc |-> AbsentCfg, orig_jc |-> AbsentCfg,
     region |-> NoList, region_bams |-> NoList, work_bam |-> Absent,
     vrn_file |-> vrn_file, vrn_file_orig |-> "orig.vcf",
     vrn_file_batch |-> "batch.vcf", vrn_file_plus |-> "plus",
     vrn_stats |-> "stats", validate |-> "validate",
     variants |-> <<>>]

----------------------------------------------------------------------------
\* get_variantcaller and handle_multiple_callers.

\* get_variantcaller without its align_bam test
get_variantcaller_any_bam(data, key, default) ==
    IF GetCfg(data, key).kind = "absent" THEN default ELSE GetCfg(data, key)

\* get_variantcaller(data, key, default): None without an align_bam
get_variantcaller(data, key, default) ==
    IF BamTruthy(data.align_bam)
    THEN IF GetCfg(data, key).kind = "absent" THEN default ELSE GetCfg(data, key)
    ELSE AbsentCfg

\* the jointcaller list as handle_multiple_callers reads it: a string is wrapped
JointCallerList(data) ==
    LET jcallers == get_variantcaller(data, "jointcaller", ListCfg(<<>>))
    IN  IF jcallers.kind = "str" THEN <<jcallers.v[1]>>
        ELSE IF Truthy(jcallers) THEN jcallers.v
        ELSE <<>>

\* the filter with startswith turned round: caller.startswith(x)
JointMatchesReversed(jcallers, caller) ==
    LET Match(x) == StartsWith(caller, x)
    IN  SelectSeq(jcallers, Match)

\* [x for x in jcallers if x.startswith(caller)]
JointMatches(jcallers, caller) ==
    LET Match(x) == StartsWith(x, caller)
    IN  SelectSeq(jcallers, Match)

\* the orig_<key> stash of one clone: set only when the clone has none
StashOrig(base, key) ==
    IF ~Truthy(GetCfg(base, OrigKey(key)))
    THEN SetCfg(base, OrigKey(key), GetCfg(base, key))
    ELSE base

\* the jointcaller split of one clone, done when splitting by variantcaller
SplitJoint(base, data, caller) ==
    LET jcallers == JointCallerList(data)
    IN  IF jcallers # <<>>
        THEN LET matches == JointMatches(jcallers, caller)
             IN  [base EXCEPT !.orig_jc = ListCfg(jcallers),
                              !.jc = IF matches # <<>> THEN StrCfg(matches[1])
                                     ELSE FalseCfg]
        ELSE base

\* one pass of the loop over callers: the clone made for `caller`
ExpandOne(data, key, caller) ==
    LET stashed == StashOrig(data, key)
        base == SetCfg(stashed, key, StrCfg(caller))
    IN  IF key = "variantcaller" THEN SplitJoint(base, data, caller) ELSE base

handle_multiple_callers(data, key, default) ==
    LET callers == get_variantcaller(data, key, default)
    IN  IF callers.kind = "str" THEN <<data>>
        ELSE IF ~Truthy(callers) THEN <<>>
        ELSE [i \in 1..Len(callers.v) |-> ExpandOne(data, key, callers.v[i])]

----------------------------------------------------------------------------
\* The result collapser and the multi-caller combiner.

\* multi.get_batch_for_key(data)
get_batch_for_key(data) == data.batch

\* get_in(data, ("combine", "work_bam", "out"), data.get("align_bam"))
WorkBamOf(data) ==
    IF data.combine_out.kind # "none" THEN data.combine_out ELSE data.align_bam

\* if isinstance(work_bam, list): work_bam = tuple(work_bam)
TupleIfList(work_bam) ==
    IF work_bam.kind = "list" THEN TupleBam(work_bam.v) ELSE work_bam

\* the collapser's grouping key
CollapseKey(data) ==
    <<get_batch_for_key(data), TupleIfList(WorkBamOf(data)),
      get_variantcaller(data, "variantcaller", StrCfg(Gatk))>>

\* the positions of `keys` that hold a key for the first time (OrderedDict order)
FirstPositions(keys) ==
    LET First(i) == \A j \in 1..(i - 1) : keys[j] # keys[i]
        Pick[i \in 0..Len(keys)] ==
            IF i = 0 THEN <<>>
            ELSE IF First(i) THEN Append(Pick[i - 1], i) ELSE Pick[i - 1]
    IN  Pick[Len(keys)]

\* grouped_data[-1]: the last member of a group instead of the first
RepresentativeLast(samples, keys, first) ==
    samples[CHOOSE i \in DOMAIN samples :
               /\ keys[i] = keys[first]
               /\ \A j \in DOMAIN samples : keys[j] = keys[first] => j <= i]

\* grouped_data[0]: the member of a group that stands for it
Representative(samples, keys, first) == samples[first]

\* region_bams and len(region_bams[0]) > 1
SplitAcrossInputs(region_bams) ==
    region_bams.has /\ region_bams.v # <<>> /\ Len(region_bams.v[1]) > 1

\* the pops done on a group's representative
StripRegionFields(cur) ==
    [cur EXCEPT !.region = NoList,
                !.region_bams = NoList,
                !.work_bam = IF SplitAcrossInputs(cur.region_bams) THEN Absent ELSE @]

collapse_by_bam_variantcaller(samples) ==
    LET keys == [i \in 1..Len(samples) |-> CollapseKey(samples[i])]
        firsts == FirstPositions(keys)
    IN  [g \in 1..Len(firsts) |->
            StripRegionFields(Representative(samples, keys, firsts[g]))]

\* data.get(field): None when the key is not there
GetOrNone(val) == IF val = Absent THEN NoneVal ELSE val

\* the combiner's grouping key: the BAM value goes in as it is
CombineKey(data) == <<get_batch_for_key(data), WorkBamOf(data)>>

\* a list inside a dictionary key cannot be hashed: TypeError
Unhashable(key) == key[2].kind = "list"

\* the entry of a record's own variantcaller
CallerEntry(data, variantcaller, jointcaller) ==
    [variantcaller |-> variantcaller,
     vrn_file |-> IF Truthy(jointcaller) THEN GetOrNone(data.vrn_file_orig)
                  ELSE GetOrNone(data.vrn_file),
     vrn_file_batch |-> IF ~Truthy(jointcaller) THEN GetOrNone(data.vrn_file_batch)
                        ELSE NoneVal,
     vrn_stats |-> GetOrNone(data.vrn_stats),
     validate |-> IF ~Truthy(jointcaller) THEN GetOrNone(data.validate) ELSE NoneVal,
     do_upload |-> Absent,
     population |-> IF Truthy(jointcaller) THEN FalseVal ELSE Absent]

\* the entry of a record's jointcaller: the configured value goes in as it is
JointEntry(data, jointcaller) ==
    [variantcaller |-> jointcaller,
     vrn_file |-> GetOrNone(data.vrn_file),
     vrn_file_batch |-> GetOrNone(data.vrn_file_batch),
     vrn_stats |-> Absent,
     validate |-> GetOrNone(data.validate),
     do_upload |-> FalseVal,
     population |-> Absent]

PrecalledEntry(data) ==
    [variantcaller |-> StrCfg(Precalled),
     vrn_file |-> GetOrNone(data.vrn_file),
     vrn_file_batch |-> Absent,
     vrn_stats |-> Absent,
     validate |-> GetOrNone(data.validate),
     do_upload |-> FalseVal,
     population |-> Absent]

\* the entries one record of a call group adds to ready_calls
EntriesOf(data) ==
    LET jointcaller == data.jc
        variantcaller == get_variantcaller(data, "variantcaller", StrCfg(Gatk))
    IN  (IF Truthy(variantcaller)
         THEN <<CallerEntry(data, variantcaller, jointcaller)>> ELSE <<>>)
        \o (IF Truthy(jointcaller) THEN <<JointEntry(data, jointcaller)>> ELSE <<>>)
        \o (IF ~Truthy(jointcaller) /\ ~Truthy(variantcaller)
            THEN <<PrecalledEntry(data)>> ELSE <<>>)

RECURSIVE ReadyCalls(_)
ReadyCalls(callgroup) ==
    IF callgroup = <<>> THEN <<>>
    ELSE EntriesOf(Head(callgroup)) \o ReadyCalls(Tail(callgroup))

\* list.index(x): the first position of x, counted from 0; -1 stands for ValueError
IndexOf(ids, x) ==
    IF x.kind = "str" /\ \E i \in 1..Len(ids) : ids[i] = x.v[1]
    THEN (CHOOSE i \in 1..Len(ids) :
             ids[i] = x.v[1] /\ \A j \in 1..(i - 1) : ids[j] # x.v[1]) - 1
    ELSE -1

\* orig_variantcaller_order(x); -1 when the lookup raises
orig_variantcaller_order(final, x) ==
    IF IndexOf(final.orig_vc.v, x.variantcaller) >= 0
    THEN IndexOf(final.orig_vc.v, x.variantcaller)
    ELSE IF final.orig_jc.kind = "absent" THEN -1
    ELSE IndexOf(final.orig_jc.v, x.variantcaller)

\* sorted(ready_calls, key=...): stable, entries of equal key keep their order
SortedCalls(final, ready_calls) ==
    LET KeyOf(x) == orig_variantcaller_order(final, x)
        Top == Len(final.orig_vc.v) + Len(final.orig_jc.v)
        Upto[k \in 0..Top] ==
            LET Here(x) == KeyOf(x) = k
            IN  (IF k = 0 THEN <<>> ELSE Upto[k - 1]) \o SelectSeq(ready_calls, Here)
    IN  Upto[Top]

\* the test of line 85 without its count of the entries
UnexpandsAnyCount(final, ready_calls) == final.orig_vc.kind # "absent"

\* whether the combiner sorts and un-expands: the test of line 85
Unexpands(final, ready_calls) ==
    Len(ready_calls) > 1 /\ final.orig_vc.kind # "absent"

\* the renames of the orig_ stash back to the active configuration
RestoreOrig(final) ==
    LET one == [final EXCEPT !.vc = final.orig_vc, !.orig_vc = AbsentCfg]
    IN  IF one.orig_jc.kind # "absent"
        THEN [one EXCEPT !.jc = one.orig_jc, !.orig_jc = AbsentCfg]
        ELSE one

\* the four pops that end the merge of a group
DropStaging(final) ==
    [final EXCEPT !.vrn_file_batch = Absent, !.vrn_file_orig = Absent,
                  !.vrn_file_plus = Absent, !.vrn_stats = Absent]

\* the merged record of one call group
MergeGroup(callgroup) ==
    LET ready_calls == ReadyCalls(callgroup)
        final == callgroup[1]
    IN  DropStaging(
            IF Unexpands(final, ready_calls)
            THEN [RestoreOrig(final) EXCEPT !.variants = SortedCalls(final, ready_calls)]
            ELSE [final EXCEPT !.variants = ready_calls])

\* the call groups, in the order their keys are first met
CallGroups(samples) ==
    LET keys == [i \in 1..Len(samples) |-> CombineKey(samples[i])]
        firsts == FirstPositions(keys)
        Members(g) ==
            LET pos == {i \in 1..Len(samples) : keys[i] = keys[firsts[g]]}
                In(i) == i \in pos
            IN  [k \in 1..Cardinality(pos) |->
                    samples[SelectSeq([i \in 1..Len(samples) |-> i], In)[k]]]
    IN  [g \in 1..Len(firsts) |-> Members(g)]

\* whether combine_multiple_callers raises instead of returning
CombineRaises(samples) ==
    \/ \E i \in 1..Len(samples) : Unhashable(CombineKey(samples[i]))
    \/ \E g \in Range(CallGroups(samples)) :
          /\ Unexpands(g[1], ReadyCalls(g))
          /\ \E x \in Range(ReadyCalls(g)) : orig_variantcaller_order(g[1], x) < 0

combine_multiple_callers(samples) ==
    LET groups == CallGroups(samples)
    IN  [g \in 1..Len(groups) |-> MergeGroup(groups[g])]

----------------------------------------------------------------------------
\* The calling pipeline of one sample: expansion, calling, combination.

\* the path _handle_precalled copies the supplied variants to
PrecalledFile == "work/precalled/S1-precalled.vcf"

\* the combined variant file the execution delegate leaves in "vrn_file"
CalledFile == "work/S1.vcf.gz"

_handle_precalled(data) ==
    IF data.vrn_file # Absent THEN [data EXCEPT !.vrn_file = PrecalledFile] ELSE data

\* grouped_parallel_split_combine: every record comes back with its vrn_file
grouped_parallel_split_combine(to_process) ==
    [i \in 1..Len(to_process) |-> [to_process[i] EXCEPT !.vrn_file = CalledFile]]

RECURSIVE ToProcess(_)
\* the clones of all samples, in order: what goes to the callers
ToProcess(samples) ==
    IF samples = <<>> THEN <<>>
    ELSE handle_multiple_callers(Head(samples), "variantcaller", StrCfg(Gatk))
         \o ToProcess(Tail(samples))

RECURSIVE Extras(_)
\* the samples no caller is run for, after _handle_precalled
Extras(samples) ==
    IF samples = <<>> THEN <<>>
    ELSE (IF handle_multiple_callers(Head(samples), "variantcaller", StrCfg(Gatk)) = <<>>
          THEN <<_handle_precalled(Head(samples))>> ELSE <<>>)
         \o Extras(Tail(samples))

parallel_variantcall_region(samples) ==
    Extras(samples)
    \o collapse_by_bam_variantcaller(grouped_parallel_split_combine(ToProcess(samples)))

BamValues ==
    {NoBam, StrBam("x.bam"), ListBam(<<"a.bam", "b.bam">>), TupleBam(<<"a.bam", "b.bam">>)}

VariantCallerValues ==
    {AbsentCfg, FalseCfg} \cup {StrCfg(c) : c \in VariantCallerIds}
    \cup {ListCfg(cs) : cs \in InjSeqs(VariantCallerIds, 1, MaxCallers)}

JointCallerValues ==
    {AbsentCfg, FalseCfg} \cup {StrCfg(j) : j \in JointCallerIds}
    \cup {ListCfg(js) : js \in InjSeqs(JointCallerIds, 0, MaxJoint)}

Samples ==
    {NewRecord("B1", bam, vc, jc, vrn_file) :
        bam \in BamValues, vc \in VariantCallerValues, jc \in JointCallerValues,
        vrn_file \in {Absent, "in.vcf"}}

\* the variables the pipeline does not touch
RunIdle == UNCHANGED <<results, split, fs, runs, callerCalls, toolCalls, vrn>>

\* what _do_work returns for a sample that is not split: (None, [])
NotSplit == [out_file |-> NoneVal, out_parts |-> <<>>]

RunUnused ==
    /\ results = <<>>
    /\ split = NotSplit
    /\ fs = {}
    /\ runs = <<>>
    /\ callerCalls = <<>>
    /\ toolCalls = <<>>
    /\ vrn = <<>>

PipelineInit ==
    /\ sample \in Samples
    /\ recs = <<sample>>
    /\ phase = "input"
    /\ ops = <<>>
    /\ RunUnused

Handles == {"variantcaller", "jointcaller"}

\* one application of handle_multiple_callers to a record, by a caller of it
HandleMultipleCallers(i, key) ==
    /\ phase \in {"input", "called"}
    /\ Cardinality({k \in DOMAIN ops : ops[k] \in Handles}) < MaxOps
    /\ LET out == handle_multiple_callers(recs[i], key, AbsentCfg)
       IN  recs' = IF out = <<>> THEN recs
                   ELSE SubSeq(recs, 1, i - 1) \o out \o SubSeq(recs, i + 1, Len(recs))
    /\ ops' = Append(ops, key)
    /\ UNCHANGED <<sample, phase>>
    /\ RunIdle

ParallelVariantcallRegion ==
    /\ phase = "input"
    /\ recs' = parallel_variantcall_region(recs)
    /\ phase' = "called"
    /\ ops' = Append(ops, "call")
    /\ UNCHANGED sample
    /\ RunIdle

Orders(n) == {p \in [1..n -> 1..n] : \A i, j \in 1..n : i # j => p[i] # p[j]}

\* the combiner, handed the finished records in any order p
CombineMultipleCallers ==
    /\ phase = "called"
    /\ \E p \in Orders(Len(recs)) :
          LET samples == [i \in 1..Len(recs) |-> recs[p[i]]]
          IN  IF CombineRaises(samples)
              THEN /\ phase' = "error"
                   /\ recs' = recs
              ELSE /\ phase' = "combined"
                   /\ recs' = combine_multiple_callers(samples)
    /\ ops' = Append(ops, "combine")
    /\ UNCHANGED sample
    /\ RunIdle

PipelineNext ==
    \/ \E i \in DOMAIN recs, key \in Handles : HandleMultipleCallers(i, key)
    \/ ParallelVariantcallRegion
    \/ CombineMultipleCallers

SpecPipeline == PipelineInit /\ [][PipelineNext]_vars

----------------------------------------------------------------------------
\* The collapser on the per-region results of several samples and callers.

\* the region-scoped fields of a result: none, one input per region, two
\* inputs per region, or an empty region_bams
RegionShapes ==
    {<<NoList, NoList>>,
     <<HasList(<<"chr1">>), HasList(<<<<"r1.bam">>>>)>>,
     <<HasList(<<"chr1">>), HasList(<<<<"r1.bam", "r2.bam">>>>)>>,
     <<HasList(<<"chr1">>), HasList(<<>>)>>}

ResultRecords ==
    {[NewRecord(batch, bam, vc, AbsentCfg, CalledFile)
         EXCEPT !.region = shape[1], !.region_bams = shape[2], !.work_bam = "work.bam"] :
        batch \in {"B1", "B2"},
        bam \in BamValues \ {NoBam},
        vc \in {AbsentCfg, StrCfg(Freebayes)},
        shape \in RegionShapes}

\* each result carries its own description, so that results can be told apart
Numbered(rs) == [i \in 1..Len(rs) |-> [rs[i] EXCEPT !.description = ToString(i)]]

CollapseInit ==
    /\ results \in {Numbered(rs) : rs \in UNION {[1..n -> ResultRecords] : n \in 1..MaxResults}}
    /\ recs = results
    /\ sample = results[1]
    /\ phase = "results"
    /\ ops = <<>>
    /\ split = NotSplit
    /\ fs = {}
    /\ runs = <<>>
    /\ callerCalls = <<>>
    /\ toolCalls = <<>>
    /\ vrn = <<>>

CollapseByBamVariantcaller ==
    /\ phase = "results"
    /\ recs' = collapse_by_bam_variantcaller(recs)
    /\ phase' = "called"
    /\ ops' = Append(ops, "collapse")
    /\ UNCHANGED sample
    /\ RunIdle

CollapseNext ==
    \/ CollapseByBamVariantcaller
    \/ CombineMultipleCallers

SpecCollapse == CollapseInit /\ [][CollapseNext]_vars

----------------------------------------------------------------------------
\* The region splitter and the resumable per-region call.

\* the extension parallel_variantcall_region splits with
Ext == ".vcf.gz"

\* os.path.join(a, b)
PathJoin(a, b) == a \o "/" \o b

RECURSIVE IdString(_)
\* an identifier as the string it is
IdString(id) == IF id = <<>> THEN "" ELSE Head(id) \o IdString(Tail(id))

\* region.to_safestr(r), for a region (chrom, start, end)
to_safestr(r) == r[1] \o "_" \o ToString(r[2]) \o "_" \o ToString(r[3])

\* data["group"][0] if "group" in data else data["description"]
NameOf(data) == IF data.group.has THEN data.group.v[1] ELSE data.description

\* dir_ext_fn(data): get_variantcaller names the directory
DirExt(data) == IdString(get_variantcaller(data, "variantcaller", StrCfg(Gatk)).v[1])

OutDir(data) == PathJoin(data.work_dir, DirExt(data))

\* the combined output of the whole sample
OutFile(data) == PathJoin(OutDir(data), NameOf(data) \o Ext)

\* a region's output without its extension
OutRegionBase(data, r) ==
    PathJoin(PathJoin(OutDir(data), r[1]), NameOf(data) \o "-" \o to_safestr(r))

OutRegionFile(data, r) == OutRegionBase(data, r) \o Ext

\* "%s-raw%s" % utils.splitext_plus(out_file)
RawCallFile(data, r) == OutRegionBase(data, r) \o "-raw" \o Ext

\* the first path of an entry for every region
WorkBamFirst(xs, i) == xs[1]

\* the input of region i from one entry of region_bams
WorkBam(xs, i) == IF Len(xs) = 1 THEN xs[1] ELSE xs[i]

\* the inputs of region i: one per entry of region_bams
WorkBams(data, i) ==
    [k \in 1..Len(data.region_bams.v) |-> WorkBam(data.region_bams.v[k], i)]

\* the work unit of region i
OutPart(data, i) ==
    [region |-> data.region.v[i],
     work_bams |-> WorkBams(data, i),
     out_file |-> OutRegionFile(data, data.region.v[i])]

\* assert os.path.exists(work_bam) fails for some input
MissingInput(data, files) ==
    \E i \in DOMAIN data.region.v : \E b \in Range(WorkBams(data, i)) : b \notin files

\* _do_work(data), where every input exists
do_work(data) ==
    IF data.region.has
    THEN [out_file |-> OutFile(data),
          out_parts |-> [i \in 1..Len(data.region.v) |-> OutPart(data, i)]]
    ELSE NotSplit

RegionList == <<<<"chr1", 0, 100>>, <<"chr1", 100, 200>>, <<"chr2", 0, 100>>, <<"chr2", 100, 200>>>>

\* the inputs of one sample over n regions: one BAM for all, or one per region
RegionBamsChoices(n) ==
    LET Single(k) == <<"in" \o ToString(k) \o ".bam">>
        PerRegion(k) == [i \in 1..n |-> "in" \o ToString(k) \o "-" \o ToString(i) \o ".bam"]
    IN  UNION {{[k \in 1..m |-> IF mode[k] = "single" THEN Single(k) ELSE PerRegion(k)] :
                   mode \in [1..m -> {"single", "per_region"}]} : m \in 1..2}

AllBams(data) == UNION {Range(data.region_bams.v[k]) : k \in DOMAIN data.region_bams.v}

\* a sample with its regions assigned upstream, or with none
SplitSamples ==
    LET Base(vc, group) ==
            [NewRecord("B1", StrBam("x.bam"), vc, AbsentCfg, Absent) EXCEPT !.group = group]
        Bases == {Base(vc, group) : vc \in {AbsentCfg, StrCfg(Freebayes)},
                                   group \in {NoList, HasList(<<"G1">>)}}
    IN  Bases \cup
        {[b EXCEPT !.region = HasList(rs), !.region_bams = HasList(bams)] :
            b \in Bases,
            rs \in InjSeqs(Range(RegionList), 0, MaxRegions),
            bams \in UNION {RegionBamsChoices(n) : n \in 1..MaxRegions}}

\* each entry of region_bams has one path, or one path per region
WellFormed(data) ==
    data.region.has =>
        \A k \in DOMAIN data.region_bams.v :
            Len(data.region_bams.v[k]) \in {1, Len(data.region.v)}

RunVarsInit ==
    /\ recs = <<sample>>
    /\ results = <<>>
    /\ ops = <<>>
    /\ split = NotSplit
    /\ runs = <<>>
    /\ callerCalls = <<>>
    /\ toolCalls = <<>>
    /\ vrn = <<>>

SplitInit ==
    /\ sample \in {d \in SplitSamples : WellFormed(d)}
    /\ fs \in {AllBams(sample)} \cup {AllBams(sample) \ {b} : b \in AllBams(sample)}
    /\ phase = "ready"
    /\ RunVarsInit

\* the splitter's _do_work on the sample
DoWork ==
    /\ phase = "ready"
    /\ IF sample.region.has /\ MissingInput(sample, fs)
       THEN /\ phase' = "error"
            /\ UNCHANGED <<split, runs, callerCalls, toolCalls, vrn>>
       ELSE /\ phase' = "split"
            /\ split' = do_work(sample)
            /\ runs' = [u \in 1..Len(split'.out_parts) |-> 0]
            /\ callerCalls' = [u \in 1..Len(split'.out_parts) |-> 0]
            /\ toolCalls' = [u \in 1..Len(split'.out_parts) |-> 0]
            /\ vrn' = [u \in 1..Len(split'.out_parts) |-> Absent]
    /\ ops' = Append(ops, "split")
    /\ UNCHANGED <<sample, recs, results, fs>>

SplitNext == DoWork

SpecSplit == SplitInit /\ [][SplitNext]_vars

\* the test of line 239 never finding the output
OutputNeverExists(out_file, files) == FALSE

\* os.path.exists(out_file) and os.path.lexists(out_file): the test of line 239
OutputExists(out_file, files) == out_file \in files

\* utils.file_exists(out_file)
file_exists(out_file, files) == out_file \in files

Outcomes == {"ok", "tool_fails", "no_regions", "post_fails"}

\* whether shared_variantcall runs call_fn: the output is not there, and the
\* region restriction did not come out empty
InvokesTool(call_file, files, outcome) ==
    ~file_exists(call_file, files) /\ outcome # "no_regions"

\* the files after shared_variantcall: the transaction publishes on success only
FilesAfterCall(call_file, files, outcome) ==
    IF file_exists(call_file, files) \/ outcome = "tool_fails" THEN files
    ELSE files \cup {call_file}

\* variantcall_sample on work unit u, the caller ending as `outcome` says
VariantcallSample(u, outcome) ==
    /\ phase = "split"
    /\ u \in DOMAIN split.out_parts
    /\ runs[u] < MaxRuns
    /\ LET out_file == split.out_parts[u].out_file
           call_file == RawCallFile(sample, split.out_parts[u].region)
       IN  IF OutputExists(out_file, fs)
           THEN /\ outcome = "ok"
                /\ vrn' = [vrn EXCEPT ![u] = out_file]
                /\ UNCHANGED <<fs, callerCalls, toolCalls>>
           ELSE /\ outcome \in {"tool_fails", "no_regions"} => ~file_exists(call_file, fs)
                /\ callerCalls' = [callerCalls EXCEPT ![u] = @ + 1]
                /\ toolCalls' = [toolCalls EXCEPT
                                    ![u] = IF InvokesTool(call_file, fs, outcome)
                                           THEN @ + 1 ELSE @]
                /\ IF outcome \in {"ok", "no_regions"}
                   THEN /\ fs' = FilesAfterCall(call_file, fs, outcome) \cup {out_file}
                        /\ vrn' = [vrn EXCEPT ![u] = out_file]
                   ELSE /\ fs' = FilesAfterCall(call_file, fs, outcome)
                        /\ vrn' = vrn
    /\ runs' = [runs EXCEPT ![u] = @ + 1]
    /\ UNCHANGED <<sample, recs, results, phase, ops, split>>

RunInit ==
    /\ sample \in {d \in SplitSamples :
           /\ d.region.has
           /\ d.vc = AbsentCfg
           /\ ~d.group.has
           /\ \E n \in 1..MaxRegions : d.region.v = SubSeq(RegionList, 1, n)
           /\ WellFormed(d)}
    /\ fs = AllBams(sample)
    /\ phase = "ready"
    /\ RunVarsInit

RunNext ==
    \/ DoWork
    \/ \E u \in DOMAIN split.out_parts, outcome \in Outcomes : VariantcallSample(u, outcome)

SpecRun == RunInit /\ [][RunNext]_vars

----------------------------------------------------------------------------
\* Properties of the calling pipeline (SpecPipeline).

\* the callers of a variants list, in order
CallersOf(variants) == [i \in 1..Len(variants) |-> variants[i].variantcaller]

\* the jointcaller configured for a sample, as a list of identifiers
DeclaredJoint(s) ==
    IF s.jc.kind = "str" \/ s.jc.kind = "list" THEN s.jc.v ELSE <<>>

\* the run expanded the sample over a caller list, called it and combined it
ExpandedAndCombined ==
    /\ phase = "combined"
    /\ ops = <<"call", "combine">>
    /\ sample.vc.kind = "list"
    /\ BamTruthy(sample.align_bam)

\* C1: a sample with caller list [c1..cn], expanded and then combined in any
\* completion order, ends as one record whose variants list names c1..cn in
\* that order, followed by the joint-caller entries in the order of the
\* original jointcaller list.
C1_VariantsInDeclaredOrder ==
    (ExpandedAndCombined /\ sample.jc.kind \in {"absent", "list"}) =>
        LET clones == handle_multiple_callers(sample, "variantcaller", StrCfg(Gatk))
            Ran(j) == \E k \in DOMAIN clones : clones[k].jc = StrCfg(j)
            callers == [i \in 1..Len(sample.vc.v) |-> StrCfg(sample.vc.v[i])]
            joint == SelectSeq(DeclaredJoint(sample), Ran)
        IN  /\ Len(recs) = 1
            /\ CallersOf(recs[1].variants)
                   = callers \o [i \in 1..Len(joint) |-> StrCfg(joint[i])]

\* C2: once a record carries orig_variantcaller or orig_jointcaller, every
\* record a later handle_multiple_callers derives from it carries the same value.
C2_ProvenanceWriteOnce ==
    \A i \in DOMAIN recs, key \in Handles, default \in {AbsentCfg, StrCfg(Gatk)} :
        \A d \in Range(handle_multiple_callers(recs[i], key, default)) :
            /\ recs[i].orig_vc.kind # "absent" => d.orig_vc = recs[i].orig_vc
            /\ recs[i].orig_jc.kind # "absent" => d.orig_jc = recs[i].orig_jc

\* the sample asks for no caller: neither option is there, or it is false
NoCallerSample(s) ==
    /\ s.vc.kind \in {"absent", "false"}
    /\ s.jc.kind \in {"absent", "false"}
    /\ s.vrn_file # Absent

\* the sample's record went past the callers and holds the one precalled entry
EndsPrecalled ==
    /\ phase = "called" =>
          /\ Len(recs) = 1
          /\ recs[1].vrn_file = PrecalledFile
    /\ phase = "combined" =>
          /\ Len(recs) = 1
          /\ recs[1].vrn_file = PrecalledFile
          /\ Len(recs[1].variants) = 1
          /\ recs[1].variants[1].variantcaller = StrCfg(Precalled)
          /\ recs[1].variants[1].do_upload = FalseVal

\* C5 as stated: a sample with no variantcaller and no jointcaller (absent or
\* false) and a vrn_file is never sent to a caller and ends with exactly one
\* variants entry, "precalled" with do_upload false, with or without align_bam.
C5_NoCallerEndsPrecalled ==
    NoCallerSample(sample) => EndsPrecalled

\* C5 as amended: that holds when variantcaller is false or the sample has no
\* align_bam; with an align_bam and no variantcaller key the sample is called
\* with the default caller and ends with the one entry "gatk".
C5_FalseOrNoBamEndsPrecalled ==
    NoCallerSample(sample) =>
        IF sample.vc.kind = "false" \/ ~BamTruthy(sample.align_bam)
        THEN EndsPrecalled
        ELSE /\ phase = "called" =>
                  /\ Len(recs) = 1
                  /\ recs[1].vrn_file = CalledFile
             /\ phase = "combined" =>
                  /\ Len(recs) = 1
                  /\ CallersOf(recs[1].variants) = <<StrCfg(Gatk)>>

C5_Witness ==
    /\ NoCallerSample(sample)
    /\ sample.vc.kind = "false"
    /\ BamTruthy(sample.align_bam)
    /\ phase = "combined"
    /\ CallersOf(recs[1].variants) = <<StrCfg(Precalled)>>

\* C6: a sample with one variantcaller v and jointcaller [j] is combined into
\* two entries in this order: v with the pre-joint file and vrn_file_batch and
\* validate suppressed, then one whose variantcaller is the identifier j, with
\* the record's vrn_file and do_upload false.
C6_JointEntryNamesIdentifier ==
    (/\ phase = "combined"
     /\ sample.vc.kind = "str"
     /\ sample.jc.kind = "list"
     /\ Len(sample.jc.v) = 1
     /\ BamTruthy(sample.align_bam)) =>
        /\ Len(recs) = 1
        /\ Len(recs[1].variants) = 2
        /\ recs[1].variants[1].variantcaller = sample.vc
        /\ recs[1].variants[1].vrn_file = "orig.vcf"
        /\ recs[1].variants[1].vrn_file_batch = NoneVal
        /\ recs[1].variants[1].validate = NoneVal
        /\ recs[1].variants[2].variantcaller = StrCfg(sample.jc.v[1])
        /\ recs[1].variants[2].vrn_file = recs[1].vrn_file
        /\ recs[1].variants[2].do_upload = FalseVal

\* the sample was expanded by variantcaller, and nothing else was done
JustExpanded ==
    /\ ops = <<"variantcaller">>
    /\ sample.vc.kind = "list"
    /\ Truthy(sample.jc)
    /\ BamTruthy(sample.align_bam)

\* every clone holds one caller, in list order, and false or one joint-caller
OneCallerPerClone ==
    /\ Len(recs) = Len(sample.vc.v)
    /\ \A i \in DOMAIN recs :
          /\ recs[i].vc = StrCfg(sample.vc.v[i])
          /\ recs[i].jc.kind \in {"false", "str"}

\* C7 as stated: each clone gets only joint-callers whose identifier is a
\* prefix of the clone's caller, false when there is none, and no
\* joint-caller goes to two clones.
C7_JointPrefixesCaller ==
    JustExpanded =>
        /\ OneCallerPerClone
        /\ \A i \in DOMAIN recs :
              /\ recs[i].jc.kind = "str" => StartsWith(recs[i].vc.v[1], recs[i].jc.v[1])
              /\ recs[i].jc.kind = "false" =>
                    \A j \in Range(DeclaredJoint(sample)) : ~StartsWith(recs[i].vc.v[1], j)
        /\ \A i, k \in DOMAIN recs :
              (i # k /\ recs[i].jc.kind = "str") => recs[i].jc # recs[k].jc

\* C7 as amended: each clone gets the first declared joint-caller whose
\* identifier starts with the clone's caller, false when there is none; a
\* joint-caller goes to two clones only when it starts with both callers.
C7_CallerPrefixesJoint ==
    JustExpanded =>
        /\ OneCallerPerClone
        /\ \A i \in DOMAIN recs :
              LET jl == DeclaredJoint(sample)
                  caller == sample.vc.v[i]
              IN  /\ recs[i].jc.kind = "str" =>
                        \E k \in DOMAIN jl :
                            /\ jl[k] = recs[i].jc.v[1]
                            /\ StartsWith(jl[k], caller)
                            /\ \A m \in 1..(k - 1) : ~StartsWith(jl[m], caller)
                  /\ recs[i].jc.kind = "false" =>
                        \A k \in DOMAIN jl : ~StartsWith(jl[k], caller)
        /\ \A i, k \in DOMAIN recs :
              (i # k /\ recs[i].jc.kind = "str" /\ recs[i].jc = recs[k].jc) =>
                  /\ StartsWith(recs[i].jc.v[1], sample.vc.v[i])
                  /\ StartsWith(recs[i].jc.v[1], sample.vc.v[k])

C7_Witness ==
    /\ JustExpanded
    /\ Len(recs) = 2
    /\ recs[1].jc.kind = "str"
    /\ recs[2].jc.kind = "false"

\* the staging fields are gone and the entries are in place
StagingDropped(r) ==
    /\ r.vrn_file_batch = Absent
    /\ r.vrn_file_orig = Absent
    /\ r.vrn_file_plus = Absent
    /\ r.vrn_stats = Absent
    /\ r.variants # <<>>

\* C8 as stated: after expansion over a caller list and combination, the
\* merged record's variantcaller and jointcaller are the original values, no
\* orig_ field remains, the staging fields are gone and variants is set.
C8_RoundTripRestoresConfig ==
    ExpandedAndCombined =>
        /\ Len(recs) = 1
        /\ recs[1].vc = sample.vc
        /\ recs[1].jc = sample.jc
        /\ recs[1].orig_vc.kind = "absent"
        /\ recs[1].orig_jc.kind = "absent"
        /\ StagingDropped(recs[1])

\* C8 as amended: with more than one entry, variantcaller is the original list
\* and jointcaller the original joint-callers as a list (a single identifier
\* comes back as a one-element list), and no orig_ field remains; with one
\* entry the record stays expanded: its one caller, with orig_variantcaller
\* (and orig_jointcaller, when a jointcaller was configured) still there.
\* Either way the staging fields are gone and variants is set.
C8_RoundTripWhenSeveralEntries ==
    ExpandedAndCombined =>
        /\ Len(recs) = 1
        /\ StagingDropped(recs[1])
        /\ Len(recs[1].variants) > 1 =>
              /\ recs[1].vc = sample.vc
              /\ recs[1].jc = IF Truthy(sample.jc) THEN ListCfg(DeclaredJoint(sample))
                              ELSE sample.jc
              /\ recs[1].orig_vc.kind = "absent"
              /\ recs[1].orig_jc.kind = "absent"
        /\ Len(recs[1].variants) = 1 =>
              /\ recs[1].vc = StrCfg(sample.vc.v[1])
              /\ recs[1].orig_vc = sample.vc
              /\ recs[1].orig_jc = IF Truthy(sample.jc) THEN ListCfg(DeclaredJoint(sample))
                                   ELSE AbsentCfg

C8_Witness ==
    /\ ExpandedAndCombined
    /\ Len(sample.vc.v) = 2
    /\ sample.jc.kind = "str"
    /\ Len(recs[1].variants) = 3
    /\ recs[1].vc = sample.vc

----------------------------------------------------------------------------
\* Properties of the collapser and of grouping (SpecCollapse).

\* the caller a result was made by: gatk when none is configured
CallerOf(r) == IF r.vc.kind = "absent" THEN StrCfg(Gatk) ELSE r.vc

\* the BAM a result stands for: a path, or the paths of a list or tuple
BamIdentity(r) ==
    LET b == IF r.combine_out.kind # "none" THEN r.combine_out ELSE r.align_bam
    IN  <<b.kind = "str", b.v>>

\* results i and j differ only in holding the same BAM paths as list and tuple
ListAndTuple(i, j) ==
    /\ results[i].batch = results[j].batch
    /\ CallerOf(results[i]) = CallerOf(results[j])
    /\ results[i].align_bam.kind = "list"
    /\ results[j].align_bam.kind = "tuple"
    /\ results[i].align_bam.v = results[j].align_bam.v

\* C3: in both grouping steps a record with BAM ["a.bam","b.bam"] and one with
\* ("a.bam","b.bam"), of the same batch and caller, land in the same group,
\* and computing the key never fails for a sequence-valued BAM.
C3_SequenceBamsGroupTogether ==
    \A i, j \in DOMAIN results :
        ListAndTuple(i, j) =>
            /\ phase # "error"
            /\ phase = "called" =>
                  Cardinality({k \in DOMAIN recs :
                      /\ recs[k].batch = results[i].batch
                      /\ BamIdentity(recs[k]) = BamIdentity(results[i])
                      /\ CallerOf(recs[k]) = CallerOf(results[i])}) = 1
            /\ phase = "combined" =>
                  Cardinality({k \in DOMAIN recs :
                      /\ recs[k].batch = results[i].batch
                      /\ BamIdentity(recs[k]) = BamIdentity(results[i])}) = 1

\* C9: the collapser returns one record per distinct (batch, BAM, caller) key,
\* in the order the keys are first met, each the first record met for its key,
\* without region and region_bams, and without work_bam exactly when its
\* region_bams was non-empty with more than one input in its first entry;
\* every other field is as it was.
C9_FirstRecordPerKey ==
    (phase = "called" /\ results # <<>>) =>
        LET K(i) == <<results[i].batch, BamIdentity(results[i]), CallerOf(results[i])>>
            IsFirst(i) == \A j \in 1..(i - 1) : K(j) # K(i)
            Rank(i) == Cardinality({j \in 1..i : IsFirst(j)})
        IN  /\ Len(recs) = Cardinality({K(i) : i \in DOMAIN results})
            /\ \A i \in DOMAIN results :
                  IsFirst(i) =>
                      LET r == results[i]
                          several == /\ r.region_bams.has
                                     /\ r.region_bams.v # <<>>
                                     /\ Len(r.region_bams.v[1]) > 1
                      IN  recs[Rank(i)] =
                              [r EXCEPT !.region = NoList,
                                        !.region_bams = NoList,
                                        !.work_bam = IF several THEN Absent ELSE r.work_bam]

C9_Witness ==
    /\ phase = "called"
    /\ Len(results) = 2
    /\ Len(recs) = 1
    /\ results[1].align_bam.kind = "list"
    /\ results[2].align_bam.kind = "tuple"
    /\ results[1].region.has
    /\ recs[1].work_bam = Absent
    /\ ~recs[1].region.has

----------------------------------------------------------------------------
\* Properties of the region splitter (SpecSplit) and of resumption (SpecRun).

\* C4: a sample without regions yields (None, []); a sample with n regions
\* whose inputs all exist yields n work units, one per region in region
\* order, each with one input per region_bams entry (the single path of an
\* entry of length 1, else the entry's i-th path), with output paths that
\* differ from one another and from the combined output path.
C4_SplitDuality ==
    phase = "split" =>
        IF ~sample.region.has
        THEN split = [out_file |-> NoneVal, out_parts |-> <<>>]
        ELSE LET regions == sample.region.v
                 inputs == sample.region_bams.v
                 parts == split.out_parts
             IN  /\ Len(parts) = Len(regions)
                 /\ \A i \in DOMAIN parts :
                       /\ parts[i].region = regions[i]
                       /\ Len(parts[i].work_bams) = Len(inputs)
                       /\ \A k \in DOMAIN inputs :
                             parts[i].work_bams[k] =
                                 IF Len(inputs[k]) = 1 THEN inputs[k][1] ELSE inputs[k][i]
                       /\ parts[i].out_file # split.out_file
                 /\ \A i, j \in DOMAIN parts :
                       i # j => parts[i].out_file # parts[j].out_file

C4_Witness ==
    /\ phase = "split"
    /\ sample.region.has
    /\ Len(split.out_parts) = 2
    /\ Len(sample.region_bams.v) = 2
    /\ Len(sample.region_bams.v[1]) = 1
    /\ Len(sample.region_bams.v[2]) = 2
    /\ split.out_parts[1].work_bams[2] # split.out_parts[2].work_bams[2]

====
